---- MODULE Spec2Model ----
(***************************************************************************)
(* Model of vaultsearch.py: the driver (main), the tree walker             *)
(* (find_vault_files / is_vault_file), the decryptor (decrypt_vault_file)  *)
(* and the matcher/highlighter (highlight_matches and the match block of   *)
(* main).                                                                  *)
(*                                                                         *)
(* Text is a sequence of one-character strings; "sp" is a blank, "nl" a    *)
(* line feed.  A compiled pattern is a sequence of atoms: a literal        *)
(* character, or "ws" for the class \s.  The empty sequence is the empty   *)
(* regular expression.  The filesystem is the environment: what            *)
(* os.scandir, stat and open return is drawn when the code asks for it.    *)
(***************************************************************************)
EXTENDS Integers, Sequences, FiniteSets, TLC

VARIABLES argv, vaultOk, pc, rxsearch, search_start_path, stack, cur, found_any,
          stdout, stderr, exitCode, yielded, nEntries, call, ret

vars == <<argv, vaultOk, pc, rxsearch, search_start_path, stack, cur, found_any,
          stdout, stderr, exitCode, yielded, nEntries, call, ret>>

driverVars == <<argv, vaultOk, pc, rxsearch, search_start_path, stack, cur,
                found_any, stdout, stderr, exitCode, yielded, nEntries>>

-----------------------------------------------------------------------------
(* Bounds *)

MaxEntries == 3

MaxLineLen == 3

MaxPatLen == 2

MaxDocLen == 4

MaxBytes == 4

-----------------------------------------------------------------------------
(* Program constants *)

BGRN == "ESC[01;92m"

BRED == "ESC[01;31m"

BYEL == "ESC[01;33m"

ENDC == "ESC[0m"

VAULT_MARKER == "$ANSIBLE_VAULT"

GIT_DIR == ".git"

-----------------------------------------------------------------------------
(* Generic helpers *)

SeqsUpTo(S, n) == UNION {[1..k -> S] : k \in 0..n}

Range(s) == {s[i] : i \in 1..Len(s)}

Last(s) == s[Len(s)]

Front(s) == SubSeq(s, 1, Len(s) - 1)

Whitespace == {"sp", "nl"}

-----------------------------------------------------------------------------
(* Regular expressions: re.compile, Pattern.search, Pattern.sub *)

Atoms == {"a", "b", "ws"}

InvalidRegex == <<"(">>

CompileOk(searchterm) == "(" \notin Range(searchterm)

AtomMatches(atom, ch) == IF atom = "ws" THEN ch \in Whitespace ELSE atom = ch

MatchAt(text, pat, i) ==
    /\ i >= 1
    /\ i + Len(pat) - 1 <= Len(text)
    /\ \A j \in 1..Len(pat) : AtomMatches(pat[j], text[i + j - 1])

Search(text, pat) == \E i \in 1..(Len(text) + 1) : MatchAt(text, pat, i)

RECURSIVE SpansFrom(_, _, _)
SpansFrom(text, pat, i) ==
    IF i > Len(text) + 1 THEN <<>>
    ELSE IF MatchAt(text, pat, i)
         THEN <<(<<i, i + Len(pat) - 1>>)>>
              \o SpansFrom(text, pat, IF Len(pat) = 0 THEN i + 1 ELSE i + Len(pat))
         ELSE SpansFrom(text, pat, i + 1)

FindSpans(text, pat) == SpansFrom(text, pat, 1)

RECURSIVE SubFrom(_, _, _)
SubFrom(line, pat, i) ==
    IF i > Len(line) + 1 THEN <<>>
    ELSE IF MatchAt(line, pat, i)
         THEN <<BRED>> \o SubSeq(line, i, i + Len(pat) - 1) \o <<ENDC>>
              \o (IF Len(pat) = 0
                  THEN (IF i <= Len(line) THEN <<line[i]>> ELSE <<>>)
                       \o SubFrom(line, pat, i + 1)
                  ELSE SubFrom(line, pat, i + Len(pat)))
         ELSE (IF i <= Len(line) THEN <<line[i]>> ELSE <<>>)
              \o SubFrom(line, pat, i + 1)

RECURSIVE LStrip(_)
LStrip(s) ==
    IF s # <<>> /\ s[1] \in Whitespace THEN LStrip(Tail(s)) ELSE s

RECURSIVE SubPatternTextFrom(_, _, _)
SubPatternTextFrom(line, pat, i) ==
    IF i > Len(line) + 1 THEN <<>>
    ELSE IF MatchAt(line, pat, i)
         THEN <<BRED>> \o pat \o <<ENDC>>
              \o (IF Len(pat) = 0
                  THEN (IF i <= Len(line) THEN <<line[i]>> ELSE <<>>)
                       \o SubPatternTextFrom(line, pat, i + 1)
                  ELSE SubPatternTextFrom(line, pat, i + Len(pat)))
         ELSE (IF i <= Len(line) THEN <<line[i]>> ELSE <<>>)
              \o SubPatternTextFrom(line, pat, i + 1)

highlight_pattern_text(line, pattern) == LStrip(SubPatternTextFrom(line, pattern, 1))

highlight_matches(line, pattern) == LStrip(SubFrom(line, pattern, 1))

StripMarkers(s) == SelectSeq(s, LAMBDA c : c \notin {BRED, ENDC})

-----------------------------------------------------------------------------
(* str.splitlines and the match block of main *)

RECURSIVE SplitFrom(_, _, _)
SplitFrom(text, i, acc) ==
    IF i > Len(text) THEN (IF acc = <<>> THEN <<>> ELSE <<acc>>)
    ELSE IF text[i] = "nl" THEN <<acc>> \o SplitFrom(text, i + 1, <<>>)
    ELSE SplitFrom(text, i + 1, Append(acc, text[i]))

SplitLines(text) == SplitFrom(text, 1, <<>>)

matching_lines(data, pat) == {l \in Range(SplitLines(data)) : Search(l, pat)}

Orderings(S) ==
    {o \in [1..Cardinality(S) -> S] :
        \A i, j \in 1..Cardinality(S) : o[i] = o[j] => i = j}

OutFile(file) == [t |-> "file", path |-> file, text |-> <<>>]

OutLine(text) == [t |-> "line", path |-> <<>>, text |-> text]

OutBlank == [t |-> "blank", path |-> <<>>, text |-> <<>>]

OutNoMatch(pat) == [t |-> "nomatch", path |-> <<>>, text |-> pat]

OutUsage == [t |-> "usage", path |-> <<>>, text |-> <<>>]

PrintedLinesNoDedupe(data, pat) ==
    {[i \in 1..Len(SelectSeq(SplitLines(data), LAMBDA l : Search(l, pat))) |->
        OutLine(highlight_matches(
            SelectSeq(SplitLines(data), LAMBDA l : Search(l, pat))[i], pat))]}

PrintedLines(data, pat) ==
    {[i \in 1..Len(o) |-> OutLine(highlight_matches(o[i], pat))] :
        o \in Orderings(matching_lines(data, pat))}

MatchOutput(file, data, pat) ==
    IF Search(data, pat)
    THEN {<<OutFile(file)>> \o ls \o <<OutBlank>> : ls \in PrintedLines(data, pat)}
    ELSE {<<>>}

-----------------------------------------------------------------------------
(* bytes.decode("utf-8", errors=...) over the bytes "a" "b" "sp" "nl"      *)
(* (ASCII), "L" (lead byte of a two-byte sequence), "C" (continuation      *)
(* byte) and "X" (a byte that is never valid).                             *)

Bytes == {"a", "nl", "L", "C", "X"}

Ascii == {"a", "b", "sp", "nl"}

REPLACEMENT == "U+FFFD"

RECURSIVE DecodeFrom(_, _, _)
DecodeFrom(b, i, errors) ==
    IF i > Len(b) THEN [raised |-> FALSE, text |-> <<>>]
    ELSE IF b[i] \in Ascii
         THEN LET r == DecodeFrom(b, i + 1, errors)
              IN [raised |-> r.raised, text |-> <<b[i]>> \o r.text]
    ELSE IF b[i] = "L" /\ i + 1 <= Len(b) /\ b[i + 1] = "C"
         THEN LET r == DecodeFrom(b, i + 2, errors)
              IN [raised |-> r.raised, text |-> <<"e'">> \o r.text]
    ELSE IF errors = "strict" THEN [raised |-> TRUE, text |-> <<>>]
    ELSE LET r == DecodeFrom(b, i + 1, errors)
         IN [raised |-> r.raised,
             text |-> (IF errors = "replace" THEN <<REPLACEMENT>> ELSE <<>>) \o r.text]

DecodeReplace(b) == DecodeFrom(b, 1, "replace")

DecodeStrict(b) == DecodeFrom(b, 1, "strict")

Decode(b) == DecodeFrom(b, 1, "ignore")

-----------------------------------------------------------------------------
(* Paths and directory entries                                             *)

Comp(name, ix) == [name |-> name, ix |-> ix]

Cwd == <<Comp("cwd", 0)>>

MissingPath == <<Comp("missing", 0)>>

StartPaths ==
    {<<Comp("work", 0)>>, <<Comp(GIT_DIR, 0)>>,
     <<Comp(GIT_DIR, 0), Comp("hooks", 0)>>, MissingPath}

Exists(path) == path # MissingPath

DriverPatterns == {<<"a">>, <<"a", "ws", "b">>}

DriverDocs ==
    {<<"a", "nl", "a">>, <<"b">>, <<"a", "nl", "b">>,
     <<"a", "nl", "sp", "a">>, <<"X", "b">>}

Argvs ==
    {<<"vaultsearch">>}
    \cup {<<"vaultsearch", p>> : p \in DriverPatterns \cup {InvalidRegex}}
    \cup {<<"vaultsearch", p, s>> : p \in DriverPatterns \cup {InvalidRegex},
                                    s \in StartPaths}

VaultFile ==
    [kind |-> "file", name |-> "x", statOk |-> TRUE, size |-> 1, openOk |-> TRUE,
     marker |-> TRUE, read |-> "ok", keyOk |-> TRUE, payload |-> <<"b">>]

Entries ==
    {[VaultFile EXCEPT !.payload = d] : d \in DriverDocs}
    \cup {[VaultFile EXCEPT !.read = r] : r \in {"oserror", "unicode"}}
    \cup {[VaultFile EXCEPT !.keyOk = FALSE],
          [VaultFile EXCEPT !.statOk = FALSE],
          [VaultFile EXCEPT !.openOk = FALSE],
          [VaultFile EXCEPT !.marker = FALSE],
          [VaultFile EXCEPT !.size = 0],
          [VaultFile EXCEPT !.size = 0, !.marker = FALSE]}
    \cup {[VaultFile EXCEPT !.kind = k] : k \in {"symlink", "special"}}
    \cup {[VaultFile EXCEPT !.kind = "dir", !.name = n] : n \in {"x", GIT_DIR}}

Frame(path, via) == [path |-> path, via |-> via, opened |-> FALSE, n |-> 0,
                     gitSeen |-> FALSE]

Top == stack[Len(stack)]

Msg(t, path) == [t |-> t, path |-> path]

-----------------------------------------------------------------------------
(* parse_arguments *)

StartOf(av) == IF Len(av) > 2 THEN av[3] ELSE Cwd

ParseResultPathFirst(av) ==
    IF Len(av) < 2 THEN "usage"
    ELSE IF ~Exists(StartOf(av)) THEN "nopath"
    ELSE IF ~CompileOk(av[2]) THEN "badregex"
    ELSE "ok"

ParseResult(av) ==
    IF Len(av) < 2 THEN "usage"
    ELSE IF ~CompileOk(av[2]) THEN "badregex"
    ELSE IF ~Exists(StartOf(av)) THEN "nopath"
    ELSE "ok"

Die(msg, out) ==
    /\ stderr' = Append(stderr, msg)
    /\ stdout' = stdout \o out
    /\ pc' = "exit"
    /\ exitCode' = 1

ParseArguments ==
    /\ pc = "parse"
    /\ LET r == ParseResult(argv) IN
        CASE r = "usage" ->
                /\ Die(Msg("Error: Search term required!", <<>>), <<OutBlank, OutUsage>>)
                /\ UNCHANGED <<rxsearch, search_start_path>>
          [] r = "badregex" ->
                /\ Die(Msg("Error: Invalid regex pattern", <<>>), <<>>)
                /\ UNCHANGED <<rxsearch, search_start_path>>
          [] r = "nopath" ->
                /\ Die(Msg("Error: Path does not exist", StartOf(argv)), <<>>)
                /\ UNCHANGED <<rxsearch, search_start_path>>
          [] OTHER ->
                /\ rxsearch' = argv[2]
                /\ search_start_path' = StartOf(argv)
                /\ pc' = "setup"
                /\ UNCHANGED <<stdout, stderr, exitCode>>
    /\ UNCHANGED <<argv, vaultOk, stack, cur, found_any, yielded, nEntries, call, ret>>

-----------------------------------------------------------------------------
(* main, lines 158-169: vault secret setup *)

SetupVault ==
    /\ pc = "setup"
    /\ IF vaultOk
       THEN /\ pc' = "walk"
            /\ found_any' = FALSE
            /\ stack' = <<Frame(search_start_path, "start")>>
            /\ UNCHANGED <<stdout, stderr, exitCode>>
       ELSE /\ Die(Msg("Error: Failed to setup vault secrets", <<>>), <<>>)
            /\ UNCHANGED <<found_any, stack>>
    /\ UNCHANGED <<argv, vaultOk, rxsearch, search_start_path, cur, yielded,
                   nEntries, call, ret>>

-----------------------------------------------------------------------------
(* is_vault_file and find_vault_files *)

is_vault_file(e) == e.openOk /\ e.marker

EntryOutcomeNoSize(e) ==
    IF e.kind = "file"
    THEN IF ~e.statOk THEN "warn_access"
         ELSE IF ~e.openOk THEN "warn_read"
         ELSE IF is_vault_file(e) THEN "yield" ELSE "skip"
    ELSE IF e.kind = "dir" /\ e.name # GIT_DIR THEN "recurse"
    ELSE "skip"

EntryOutcomeNoGit(e) ==
    IF e.kind = "file" /\ ~e.statOk THEN "warn_access"
    ELSE IF e.kind = "file" /\ e.size > 0
    THEN IF ~e.openOk THEN "warn_read"
         ELSE IF is_vault_file(e) THEN "yield" ELSE "skip"
    ELSE IF e.kind = "dir" THEN "recurse"
    ELSE "skip"

EntryOutcome(e) ==
    IF e.kind = "file" /\ ~e.statOk THEN "warn_access"
    ELSE IF e.kind = "file" /\ e.size > 0
    THEN IF ~e.openOk THEN "warn_read"
         ELSE IF is_vault_file(e) THEN "yield" ELSE "skip"
    ELSE IF e.kind = "dir" /\ e.name # GIT_DIR THEN "recurse"
    ELSE "skip"

Pop(st) ==
    /\ stack' = st
    /\ pc' = IF st = <<>> THEN "summary" ELSE "walk"

ScanDir ==
    /\ pc = "walk"
    /\ stack # <<>>
    /\ ~Top.opened
    /\ \E ok \in BOOLEAN :
        IF ok
        THEN /\ stack' = [stack EXCEPT ![Len(stack)].opened = TRUE]
             /\ UNCHANGED <<pc, stderr>>
        ELSE /\ stderr' = Append(stderr, Msg("Warning: Cannot scan directory", Top.path))
             /\ Pop(Front(stack))
    /\ UNCHANGED <<argv, vaultOk, rxsearch, search_start_path, cur, found_any,
                   stdout, exitCode, yielded, nEntries, call, ret>>

NextEntry ==
    /\ pc = "walk"
    /\ stack # <<>>
    /\ Top.opened
    /\ nEntries < MaxEntries
    /\ \E e \in Entries :
        /\ e.name = GIT_DIR => ~Top.gitSeen
        /\ LET path == Append(Top.path, Comp(e.name, Top.n + 1))
               out == EntryOutcome(e)
               adv == [stack EXCEPT ![Len(stack)].n = @ + 1,
                                    ![Len(stack)].gitSeen = @ \/ e.name = GIT_DIR]
           IN
            /\ nEntries' = nEntries + 1
            /\ CASE out = "yield" ->
                    /\ stack' = adv
                    /\ cur' = <<[path |-> path, entry |-> e]>>
                    /\ yielded' = Append(yielded, [path |-> path, entry |-> e])
                    /\ pc' = "body"
                    /\ UNCHANGED stderr
                 [] out = "recurse" ->
                    /\ stack' = Append(adv, Frame(path, e.kind))
                    /\ UNCHANGED <<cur, yielded, pc, stderr>>
                 [] out = "warn_access" ->
                    /\ stack' = adv
                    /\ stderr' = Append(stderr, Msg("Warning: Cannot access", path))
                    /\ UNCHANGED <<cur, yielded, pc>>
                 [] out = "warn_read" ->
                    /\ stack' = adv
                    /\ stderr' = Append(stderr, Msg("Warning: Cannot read", path))
                    /\ UNCHANGED <<cur, yielded, pc>>
                 [] OTHER ->
                    /\ stack' = adv
                    /\ UNCHANGED <<cur, yielded, pc, stderr>>
    /\ UNCHANGED <<argv, vaultOk, rxsearch, search_start_path, found_any, stdout,
                   exitCode, call, ret>>

EndDir ==
    /\ pc = "walk"
    /\ stack # <<>>
    /\ Top.opened
    /\ Pop(Front(stack))
    /\ UNCHANGED <<argv, vaultOk, rxsearch, search_start_path, cur, found_any,
                   stdout, stderr, exitCode, yielded, nEntries, call, ret>>

-----------------------------------------------------------------------------
(* decrypt_vault_file and the loop body of main *)

decrypt_vault_file(e) ==
    IF e.read = "oserror"
    THEN [status |-> "none", warn |-> "Warning: Cannot read", text |-> <<>>]
    ELSE IF e.read = "unicode"
    THEN [status |-> "raise", warn |-> "UnicodeDecodeError", text |-> <<>>]
    ELSE IF ~e.keyOk
    THEN [status |-> "none", warn |-> "Warning: Cannot decrypt", text |-> <<>>]
    ELSE IF Decode(e.payload).raised
    THEN [status |-> "raise", warn |-> "UnicodeDecodeError", text |-> <<>>]
    ELSE [status |-> "ok", warn |-> "", text |-> Decode(e.payload).text]

Body ==
    /\ pc = "body"
    /\ LET f == cur[1]
           d == decrypt_vault_file(f.entry)
       IN
        CASE d.status = "none" ->
                /\ stderr' = Append(stderr, Msg(d.warn, f.path))
                /\ pc' = "walk"
                /\ UNCHANGED <<found_any, stdout, exitCode>>
          [] d.status = "raise" ->
                /\ stderr' = Append(stderr, Msg("Traceback: " \o d.warn, f.path))
                /\ pc' = "crashed"
                /\ exitCode' = 1
                /\ UNCHANGED <<found_any, stdout>>
          [] OTHER ->
                /\ found_any' = (found_any \/ Search(d.text, rxsearch))
                /\ \E out \in MatchOutput(f.path, d.text, rxsearch) :
                        stdout' = stdout \o out
                /\ pc' = "walk"
                /\ UNCHANGED <<stderr, exitCode>>
    /\ cur' = <<>>
    /\ UNCHANGED <<argv, vaultOk, rxsearch, search_start_path, stack, yielded,
                   nEntries, call, ret>>

SummaryAlways(found, pat) == <<OutNoMatch(pat)>>

SummaryOutput(found, pat) == IF ~found THEN <<OutNoMatch(pat)>> ELSE <<>>

Summary ==
    /\ pc = "summary"
    /\ stdout' = stdout \o SummaryOutput(found_any, rxsearch)
    /\ pc' = "exit"
    /\ exitCode' = 0
    /\ UNCHANGED <<argv, vaultOk, rxsearch, search_start_path, stack, cur,
                   found_any, stderr, yielded, nEntries, call, ret>>

-----------------------------------------------------------------------------
(* The program *)

Idle == [fn |-> "main", text |-> <<>>, pattern |-> <<>>]

DriverInit ==
    /\ argv \in Argvs
    /\ vaultOk \in BOOLEAN
    /\ pc = "parse"
    /\ rxsearch = <<>>
    /\ search_start_path = <<>>
    /\ stack = <<>>
    /\ cur = <<>>
    /\ found_any = FALSE
    /\ stdout = <<>>
    /\ stderr = <<>>
    /\ exitCode = -1
    /\ yielded = <<>>
    /\ nEntries = 0

Init == DriverInit /\ call = Idle /\ ret = <<>>

Next ==
    \/ ParseArguments
    \/ SetupVault
    \/ ScanDir
    \/ NextEntry
    \/ EndDir
    \/ Body
    \/ Summary

Spec == Init /\ [][Next]_vars

-----------------------------------------------------------------------------
(* The pure functions, each applied to every input within the bounds *)

Patterns == SeqsUpTo(Atoms, MaxPatLen)

LineChars == {"a", "b", "sp", ENDC}

Lines == SeqsUpTo(LineChars, MaxLineLen)

DocChars == {"a", "sp", "nl"}

Docs == SeqsUpTo(DocChars, MaxDocLen)

ByteStrings == SeqsUpTo(Bytes, MaxBytes)

SomeFile == <<Comp("vault.yml", 0)>>

DriverIdle ==
    /\ argv = <<"vaultsearch">>
    /\ vaultOk = TRUE
    /\ pc = "idle"
    /\ rxsearch = <<>>
    /\ search_start_path = <<>>
    /\ stack = <<>>
    /\ cur = <<>>
    /\ found_any = FALSE
    /\ stdout = <<>>
    /\ stderr = <<>>
    /\ exitCode = -1
    /\ yielded = <<>>
    /\ nEntries = 0

CallHighlight ==
    /\ call.fn = "highlight_matches"
    /\ ret = <<>>
    /\ ret' = <<highlight_matches(call.text, call.pattern)>>
    /\ UNCHANGED <<driverVars, call>>

InitHighlight ==
    /\ DriverIdle
    /\ call \in [fn : {"highlight_matches"}, text : Lines, pattern : Patterns]
    /\ ret = <<>>

SpecHighlight == InitHighlight /\ [][CallHighlight]_vars

CallDecode ==
    /\ call.fn = "decode"
    /\ ret = <<>>
    /\ ret' = <<Decode(call.text)>>
    /\ UNCHANGED <<driverVars, call>>

InitDecode ==
    /\ DriverIdle
    /\ call \in [fn : {"decode"}, text : ByteStrings, pattern : {<<>>}]
    /\ ret = <<>>

SpecDecode == InitDecode /\ [][CallDecode]_vars

CallMatch ==
    /\ call.fn = "match"
    /\ ret = <<>>
    /\ \E out \in MatchOutput(SomeFile, call.text, call.pattern) : ret' = <<out>>
    /\ UNCHANGED <<driverVars, call>>

InitMatch ==
    /\ DriverIdle
    /\ call \in [fn : {"match"}, text : Docs, pattern : Patterns]
    /\ ret = <<>>

SpecMatch == InitMatch /\ [][CallMatch]_vars

-----------------------------------------------------------------------------
(* Claims *)

InitPasses == Len(argv) >= 2 /\ CompileOk(argv[2]) /\ Exists(StartOf(argv)) /\ vaultOk

\* C1: every file handed to decrypt_vault_file (and every file the walker
\* yields) is a regular file, not a symbolic link, of size greater than 0
\* whose first line contains the marker.
C1_OnlyVaultFiles ==
    /\ pc = "body" =>
        /\ cur[1].entry.kind = "file"
        /\ cur[1].entry.size > 0
        /\ cur[1].entry.marker
    /\ \A i \in 1..Len(yielded) :
        /\ yielded[i].entry.kind = "file"
        /\ yielded[i].entry.size > 0
        /\ yielded[i].entry.marker

C1_Witness == pc = "body" /\ nEntries >= 2 /\ Len(yielded) = 1

\* C2 as stated: no directory named .git is ever enumerated, whatever the
\* start path, and no yielded file lies under a .git directory.
C2_Original ==
    /\ \A i \in 1..Len(stack) :
        stack[i].opened => Last(stack[i].path).name # GIT_DIR
    /\ \A i \in 1..Len(yielded) :
        \A k \in 1..Len(yielded[i].path) : yielded[i].path[k].name # GIT_DIR

\* C2 amended: the walker never recurses into a directory entry named .git:
\* every directory enumerated other than the start path itself is not named
\* .git, and no yielded file lies under a .git directory below the start path.
C2_Amended ==
    /\ \A i \in 2..Len(stack) : Last(stack[i].path).name # GIT_DIR
    /\ \A i \in 1..Len(yielded) :
        \A k \in (Len(search_start_path) + 1)..(Len(yielded[i].path) - 1) :
            yielded[i].path[k].name # GIT_DIR

C2_Witness ==
    /\ pc = "body"
    /\ Len(stack) = 2
    /\ stack[1].gitSeen
    /\ Last(search_start_path).name # GIT_DIR

\* C3: a failure to read or to decrypt a yielded file never aborts the run:
\* it appends one warning naming the path, prints nothing, leaves found_any
\* alone and hands control back to the walk.
C3_Claim ==
    [][(pc = "body" /\ (cur[1].entry.read # "ok" \/ ~cur[1].entry.keyOk))
        => /\ pc' = "walk"
           /\ Len(stderr') = Len(stderr) + 1
           /\ stderr'[Len(stderr')].path = cur[1].path
           /\ stdout' = stdout
           /\ found_any' = found_any]_vars

\* C4: INIT checks argument count, pattern, start path and vault secrets in
\* that order; the first failing check ends the process with status 1, and
\* with an invalid pattern or a missing start path nothing is scanned,
\* decrypted or written to standard output.
C4_InitOrder ==
    pc \notin {"parse"} =>
        /\ Len(argv) < 2 =>
            /\ pc = "exit" /\ exitCode = 1
            /\ stderr = <<Msg("Error: Search term required!", <<>>)>>
        /\ (Len(argv) >= 2 /\ ~CompileOk(argv[2])) =>
            /\ pc = "exit" /\ exitCode = 1
            /\ stderr = <<Msg("Error: Invalid regex pattern", <<>>)>>
            /\ stdout = <<>> /\ stack = <<>> /\ yielded = <<>> /\ nEntries = 0
        /\ (Len(argv) >= 2 /\ CompileOk(argv[2]) /\ ~Exists(StartOf(argv))) =>
            /\ pc = "exit" /\ exitCode = 1
            /\ stderr = <<Msg("Error: Path does not exist", StartOf(argv))>>
            /\ stdout = <<>> /\ stack = <<>> /\ yielded = <<>> /\ nEntries = 0
        /\ (Len(argv) >= 2 /\ CompileOk(argv[2]) /\ Exists(StartOf(argv))
                /\ ~vaultOk /\ pc # "setup") =>
            /\ pc = "exit" /\ exitCode = 1
            /\ stderr = <<Msg("Error: Failed to setup vault secrets", <<>>)>>
            /\ stdout = <<>> /\ stack = <<>> /\ yielded = <<>> /\ nEntries = 0

C4_Witness ==
    /\ pc = "exit"
    /\ Len(argv) = 3
    /\ ~CompileOk(argv[2])
    /\ ~Exists(argv[3])

FileMatches(y) ==
    /\ y.entry.read = "ok"
    /\ y.entry.keyOk
    /\ Search(DecodeFrom(y.entry.payload, 1, "ignore").text, rxsearch)

\* C5: a run that completes the walk exits with status 0, and prints the
\* "No matches found" line exactly when no file's decrypted text matched:
\* then it is the only output; otherwise it is absent and a file block is
\* printed.
C5_Summary ==
    /\ (pc = "exit" /\ InitPasses) => exitCode = 0
    /\ (pc = "exit" /\ exitCode = 0) =>
        IF \E i \in 1..Len(yielded) : FileMatches(yielded[i])
        THEN /\ \A k \in 1..Len(stdout) : stdout[k].t # "nomatch"
             /\ \E k \in 1..Len(stdout) : stdout[k].t = "file"
        ELSE stdout = <<OutNoMatch(rxsearch)>>

C5_Witness ==
    /\ pc = "exit"
    /\ exitCode = 0
    /\ Len(yielded) >= 2
    /\ \E k \in 1..Len(stdout) : stdout[k].t = "file"

\* C6: whenever the pattern occurs anywhere in the decrypted text, the file
\* is reported and at least one highlighted line is printed under it.
C6_Claim ==
    (call.fn = "match" /\ ret # <<>> /\ Search(call.text, call.pattern)) =>
        /\ ret[1] # <<>>
        /\ ret[1][1].t = "file"
        /\ \E i \in 1..Len(ret[1]) :
            ret[1][i].t = "line" /\ BRED \in Range(ret[1][i].text)

DistinctMatching(data, pat) ==
    {SplitLines(data)[i] : i \in {k \in 1..Len(SplitLines(data)) :
                                    Search(SplitLines(data)[k], pat)}}

\* C7: the lines printed under a matching file are exactly the distinct
\* lines of the document that match the pattern, each printed once
\* (highlighted), and nothing else.
C7_Dedup ==
    (call.fn = "match" /\ ret # <<>> /\ ret[1] # <<>>) =>
        LET printed == SelectSeq(ret[1], LAMBDA o : o.t = "line")
            D == DistinctMatching(call.text, call.pattern)
            H(l) == highlight_matches(l, call.pattern)
        IN /\ Len(printed) = Cardinality(D)
           /\ Len(ret[1]) = Len(printed) + 2
           /\ \A i \in 1..Len(printed) : \E l \in D : printed[i].text = H(l)
           /\ \A l \in D :
                Cardinality({i \in 1..Len(printed) : printed[i].text = H(l)})
                    = Cardinality({m \in D : H(m) = H(l)})

C7_Witness ==
    /\ call.fn = "match"
    /\ ret # <<>>
    /\ ret[1] # <<>>
    /\ Len(SelectSeq(SplitLines(call.text), LAMBDA l : Search(l, call.pattern)))
        > Cardinality(DistinctMatching(call.text, call.pattern))
    /\ \E i \in 1..Len(SplitLines(call.text)) :
        ~Search(SplitLines(call.text)[i], call.pattern)

\* C8 as stated: for every line and pattern, stripping the markers from the
\* highlighted line and matching again gives the spans of the original line.
C8_Original ==
    (call.fn = "highlight_matches" /\ ret # <<>>) =>
        FindSpans(StripMarkers(ret[1]), call.pattern)
            = FindSpans(call.text, call.pattern)

\* C8 amended: the spans are reproduced for every line that has no leading
\* whitespace and contains no marker text itself.
C8_Amended ==
    (/\ call.fn = "highlight_matches"
     /\ ret # <<>>
     /\ (call.text # <<>> => call.text[1] \notin Whitespace)
     /\ Range(call.text) \cap {BRED, ENDC} = {}) =>
        FindSpans(StripMarkers(ret[1]), call.pattern)
            = FindSpans(call.text, call.pattern)

C8_Witness ==
    /\ call.fn = "highlight_matches"
    /\ ret # <<>>
    /\ call.text # <<>>
    /\ call.text[1] \notin Whitespace
    /\ Range(call.text) \cap {BRED, ENDC} = {}
    /\ "sp" \in Range(call.text)
    /\ Len(FindSpans(call.text, call.pattern)) >= 2
    /\ BRED \in Range(ret[1])

\* C9 as stated: decoding never raises and puts a replacement character in
\* the place of every invalid byte sequence.
C9_Original ==
    (call.fn = "decode" /\ ret # <<>>) =>
        /\ ~ret[1].raised
        /\ ret[1].text = DecodeFrom(call.text, 1, "replace").text

\* C9 amended: decoding never raises and drops every invalid byte sequence:
\* the text is the valid characters in order, with no replacement character.
C9_Amended ==
    (call.fn = "decode" /\ ret # <<>>) =>
        /\ ~ret[1].raised
        /\ REPLACEMENT \notin Range(ret[1].text)
        /\ ret[1].text = SelectSeq(DecodeFrom(call.text, 1, "replace").text,
                                   LAMBDA c : c # REPLACEMENT)

C9_Witness ==
    /\ call.fn = "decode"
    /\ ret # <<>>
    /\ REPLACEMENT \in Range(DecodeFrom(call.text, 1, "replace").text)
    /\ "e'" \in Range(ret[1].text)

\* C10: the walk follows no symbolic link, yields each path at most once,
\* and every run that passes INIT ends by way of the summary step.
C10_Claim ==
    /\ \A i \in 1..Len(stack) : stack[i].via # "symlink"
    /\ \A i, j \in 1..Len(yielded) : yielded[i].path = yielded[j].path => i = j
    /\ (InitPasses /\ pc \in {"exit", "crashed"}) => (pc = "exit" /\ exitCode = 0)

====
